---- MODULE Spec2Model ----
(***************************************************************************)
(* A model of the maintenance scripts of edobry/minsky:                    *)
(*                                                                         *)
(*   src/process/fix_tasks_md.py   the Task-Index Path Repairer            *)
(*   src/count_real_tools.py       the Tool-Manifest Comparator            *)
(*   src/create_rule_files.py      the Rule-File Generator                 *)
(*                                                                         *)
(* Each script is a straight-line program; a run is modelled as a program  *)
(* counter walking through its statements, with the file system as shared  *)
(* state.  Text is a sequence of one-character strings (the comparator) or *)
(* of atoms, short literal strings that no regular-expression literal of   *)
(* the repairer straddles (the repairer).                                  *)
(***************************************************************************)
EXTENDS Integers, Sequences, FiniteSets, TLC

(***************************************************************************)
(* The state: the files on disk and the variables of each script.          *)
(***************************************************************************)
\* src/process/fix_tasks_md.py, for each of its runs
VARIABLES
    tasks_md,     \* the bytes of tasks.md on disk, or NoFile
    tasks_dir,    \* the names in tasks/, or NoDir
    index0,       \* tasks.md as it was before the first run started
    pc,           \* per run: the statement it is at
    content,      \* per run: line 8
    task_files,   \* per run: lines 11-16
    fixed_lines,  \* per run: lines 20-32
    rstdout       \* per run: what it printed

repVars == <<tasks_md, tasks_dir, index0, pc, content, task_files, fixed_lines, rstdout>>

\* src/count_real_tools.py
VARIABLES
    catalogue,        \* the keys, the style and the shapes the documents were made from
    cursor_file,      \* the first document on disk, or NoFile
    our_file,         \* actual_output.txt on disk, or NoFile
    cpc,              \* the statement the comparator is at
    cursor_content,   \* line 6
    json_start,       \* lines 9 and 27
    json_end,         \* line 10
    cursor_json_str,  \* line 11
    our_content,      \* line 24
    our_json_str,     \* line 40
    cstdout           \* the lines printed

cmpVars == <<catalogue, cursor_file, our_file, cpc, cursor_content, json_start, json_end,
             cursor_json_str, our_content, our_json_str, cstdout>>

\* src/create_rule_files.py
VARIABLES
    rules_dir,   \* .cursor/rules on disk
    dir0,        \* .cursor/rules as it was before the run
    gpc,         \* the statement the generator is at
    next_rule,   \* which of the six calls comes next
    created,     \* the files the run has written
    gstdout      \* the lines printed

genVars == <<rules_dir, dir0, gpc, next_rule, created, gstdout>>

vars == <<repVars, cmpVars, genVars>>

(***************************************************************************)
(* Generic helpers for sequences.                                          *)
(***************************************************************************)
Min(a, b) == IF a <= b THEN a ELSE b

Max(a, b) == IF a >= b THEN a ELSE b

RECURSIVE Concat(_)
Concat(ss) == IF ss = <<>> THEN <<>> ELSE Head(ss) \o Concat(Tail(ss))

\* All sequences over S of length 0..n.
SeqsUpTo(S, n) == UNION {[1..k -> S] : k \in 0..n}

(***************************************************************************)
(*                     THE TASK-INDEX PATH REPAIRER                        *)
(*                      src/process/fix_tasks_md.py                        *)
(***************************************************************************)

\* Atoms of the repairer's texts.  A digit is one atom; the literals of the
\* regular expression are atoms of their own, so that a match always starts
\* and ends on an atom boundary.
NL == "\n"
CR == "\r"
Digits == {"1", "2"}

\* open('tasks.md', 'r'): text mode with universal newlines.  "\r\n" and a
\* lone "\r" both arrive in the program as "\n".
RECURSIVE ReadText(_)
ReadText(bytes) ==
    IF bytes = <<>> THEN <<>>
    ELSE IF Head(bytes) = CR
         THEN IF Len(bytes) >= 2 /\ bytes[2] = NL
              THEN <<NL>> \o ReadText(Tail(Tail(bytes)))
              ELSE <<NL>> \o ReadText(Tail(bytes))
         ELSE <<Head(bytes)>> \o ReadText(Tail(bytes))

\* open('tasks.md', 'w') ... f.write(text): text mode writes "\n" as
\* os.linesep, which is "\n" on the POSIX systems the scripts' paths name.
WriteText(text) == text

\* str.split('\n'): the pieces between the newlines; always at least one.
RECURSIVE Split(_)
Split(text) ==
    IF \A i \in 1..Len(text) : text[i] /= NL THEN <<text>>
    ELSE LET i == CHOOSE j \in 1..Len(text) :
                     text[j] = NL /\ \A k \in 1..(j - 1) : text[k] /= NL
         IN  <<SubSeq(text, 1, i - 1)>> \o Split(SubSeq(text, i + 1, Len(text)))

\* '\n'.join(lines)
RECURSIVE Join(_)
Join(ls) ==
    IF ls = <<>> THEN <<>>
    ELSE IF Len(ls) = 1 THEN ls[1]
    ELSE ls[1] \o <<NL>> \o Join(Tail(ls))

\* The order of Python's str comparison on the atoms (by first character:
\* "-" 45, "." 46, digits 48.., letters 97..).
Rank(a) ==
    CASE a = "-" -> 1
      [] a = ".md" -> 2
      [] a = "1" -> 3
      [] a = "2" -> 4
      [] a = "a" -> 5
      [] a = "b" -> 6
      [] OTHER -> 7

RECURSIVE StrLess(_, _)
StrLess(s, t) ==
    IF t = <<>> THEN FALSE
    ELSE IF s = <<>> THEN TRUE
    ELSE IF Head(s) = Head(t) THEN StrLess(Tail(s), Tail(t))
    ELSE Rank(Head(s)) < Rank(Head(t))

\* sorted(...) of a set of names.
RECURSIVE Sorted(_)
Sorted(S) ==
    IF S = {} THEN <<>>
    ELSE LET m == CHOOSE x \in S : \A y \in S \ {x} : StrLess(x, y)
         IN  <<m>> \o Sorted(S \ {m})

\* The length of the run of digits that starts at s[i] (0 when s[i] is none).
RECURSIVE DigitRun(_, _)
DigitRun(s, i) ==
    IF i <= Len(s) /\ s[i] \in Digits THEN 1 + DigitRun(s, i + 1) ELSE 0

\* glob.glob('tasks/[0-9]*.md'): the entries whose name starts with a digit
\* and ends in ".md".  A directory that does not exist matches nothing: glob
\* returns the empty list and raises no error.
NoDir == {<<"ENOENT">>}

GlobTasks(dir) ==
    IF dir = NoDir THEN {}
    ELSE {f \in dir : Len(f) >= 2 /\ f[1] \in Digits /\ f[Len(f)] = ".md"}

\* re.match(r'^(\d+)-', filename): the leading digits when a hyphen follows
\* them, <<>> for no match.
TaskNumOf(filename) ==
    LET n == DigitRun(filename, 1)
    IN  IF n >= 1 /\ n < Len(filename) /\ filename[n + 1] = "-"
        THEN SubSeq(filename, 1, n)
        ELSE <<>>

\* Lines 11-16: the mapping from task number to path, filled in the order of
\* the sorted names, a later name with the same number replacing an earlier.
RECURSIVE FillTaskFiles(_, _)
FillTaskFiles(names, files) ==
    IF names = <<>> THEN files
    ELSE LET filename == Head(names)
             task_num == TaskNumOf(filename)
             filepath == <<"tasks/">> \o filename
         IN  IF task_num /= <<>>
             THEN FillTaskFiles(Tail(names),
                    [k \in DOMAIN files \cup {task_num} |->
                        IF k = task_num THEN filepath ELSE files[k]])
             ELSE FillTaskFiles(Tail(names), files)

EmptyMap == [k \in {} |-> <<>>]

BuildTaskFiles(dir) == FillTaskFiles(Sorted(GlobTasks(dir)), EmptyMap)

\* A match of  \[#(\d+)\]\(process/tasks/[^)]+\.md\)  that starts at line[i]:
\* the position of its last atom, or 0.  After the literal prefix, [^)]+
\* runs to the first ")" at the latest, so the closing "\)" can only be the
\* first ")" after the prefix; ".md" must sit right before it and at least
\* one character between the prefix and that ".md".
FirstClose(line, from) ==
    IF \E k \in from..Len(line) : line[k] = ")"
    THEN CHOOSE k \in from..Len(line) :
            line[k] = ")" /\ \A j \in from..(k - 1) : line[j] /= ")"
    ELSE 0

MatchEnd(line, i) ==
    IF i > Len(line) \/ line[i] /= "[#" THEN 0
    ELSE LET d == DigitRun(line, i + 1)
             p == i + 1 + d
         IN  IF d = 0 \/ p + 2 > Len(line) THEN 0
             ELSE IF line[p] /= "](" \/ line[p + 1] /= "process/"
                     \/ line[p + 2] /= "tasks/" THEN 0
             ELSE LET k == FirstClose(line, p + 3)
                  IN  IF k /= 0 /\ k - 1 >= p + 4 /\ line[k - 1] = ".md"
                      THEN k ELSE 0

\* match.group(1) of a match that starts at line[i].
GroupNum(line, i) == SubSeq(line, i + 1, i + DigitRun(line, i + 1))

\* re.search: the leftmost position a match starts at, or 0.
Search(line) ==
    IF \E i \in 1..Len(line) : MatchEnd(line, i) /= 0
    THEN CHOOSE i \in 1..Len(line) :
            MatchEnd(line, i) /= 0 /\ \A j \in 1..(i - 1) : MatchEnd(line, j) = 0
    ELSE 0

\* re.sub(r'\[#' + task_num + r'\]\(process/tasks/[^)]+\.md\)', repl, line):
\* every non-overlapping match whose number is task_num, left to right, is
\* replaced.  (The pattern with the literal number matches exactly where the
\* general pattern matches with that number as its group.)
RECURSIVE SubFrom(_, _, _, _)
SubFrom(line, i, task_num, repl) ==
    IF i > Len(line) THEN <<>>
    ELSE LET e == MatchEnd(line, i)
         IN  IF e /= 0 /\ GroupNum(line, i) = task_num
             THEN repl \o SubFrom(line, e + 1, task_num, repl)
             ELSE <<line[i]>> \o SubFrom(line, i + 1, task_num, repl)

\* Lines 24-31: one line of the loop.
\* The rewrite of a line with the path as the mapping holds it, without the
\* "process/" that line 28 puts in front of it.
FixLineBarePath(line, files) ==
    LET match == Search(line)
    IN  IF match /= 0
        THEN LET task_num == GroupNum(line, match)
             IN  IF task_num \in DOMAIN files
                 THEN SubFrom(line, 1, task_num,
                              <<"[#">> \o task_num \o <<"](">> \o files[task_num] \o <<")">>)
                 ELSE line
        ELSE line

FixLine(line, files) ==
    LET match == Search(line)
    IN  IF match /= 0
        THEN LET task_num == GroupNum(line, match)
             IN  IF task_num \in DOMAIN files
                 THEN LET correct_path == <<"process/">> \o files[task_num]
                      IN  SubFrom(line, 1, task_num,
                                  <<"[#">> \o task_num \o <<"](">> \o correct_path \o <<")">>)
                 ELSE line
        ELSE line

\* Lines 19-32: split, fix each line, collect.
FixLines(text, files) ==
    LET lines == Split(text)
    IN  [i \in 1..Len(lines) |-> FixLine(lines[i], files)]

(***************************************************************************)
(* The inputs of the repairer: the index text and the tasks directory.     *)
(***************************************************************************)
NoFile == <<"ENOENT">>

\* The pieces index texts are put together from: two well-formed references,
\* a reference cut off before its ".md)", that ending on its own, a piece of
\* title text, and the two line-end characters.
RefOne == <<"[#", "1", "](", "process/", "tasks/", "a", ".md", ")">>
RefTwo == <<"[#", "2", "](", "process/", "tasks/", "b", ".md", ")">>
RefCut == <<"[#", "1", "](", "process/", "tasks/", "a">>
RefEnd == <<".md", ")">>
Title == <<" t">>
Pieces == {RefOne, RefTwo, RefCut, RefEnd, Title, <<NL>>, <<CR>>}

MaxPieces == 3

IndexTexts == {Concat(ps) : ps \in SeqsUpTo(Pieces, MaxPieces)}

\* Directory entries: two files of task 1, one of task 2, a name with no
\* hyphen after its digits, and a name that does not start with a digit.
FileNames ==
    { <<"1", "-", "a", ".md">>, <<"1", "-", "b", ".md">>, <<"2", "-", "a", ".md">>,
      <<"1", "a", ".md">>, <<"a", "-", "1", ".md">> }

MaxFiles == 2

Dirs == {NoDir} \cup {d \in SUBSET FileNames : Cardinality(d) <= MaxFiles}

\* The inputs of the concurrent runs.
NumRuns == 2

RaceTexts ==
    { NoFile, RefOne \o Title, RefOne \o <<CR, NL>> \o RefTwo, Title \o <<NL>> \o RefTwo \o <<NL>>,
      Title \o <<CR, NL>> }

RaceDirs == { {}, {<<"1", "-", "b", ".md">>}, {<<"1", "-", "a", ".md">>, <<"2", "-", "a", ".md">>} }

Runs == DOMAIN pc

RepInit(texts, dirs, runs) ==
    /\ tasks_md \in texts
    /\ tasks_dir \in dirs
    /\ index0 = tasks_md
    /\ pc = [p \in runs |-> "read"]
    /\ content = [p \in runs |-> <<>>]
    /\ task_files = [p \in runs |-> EmptyMap]
    /\ fixed_lines = [p \in runs |-> <<>>]
    /\ rstdout = [p \in runs |-> <<>>]

\* Lines 7-8.
ReadIndex(p) ==
    /\ pc[p] = "read"
    /\ tasks_md /= NoFile
    /\ content' = [content EXCEPT ![p] = ReadText(tasks_md)]
    /\ pc' = [pc EXCEPT ![p] = "scan"]
    /\ UNCHANGED <<tasks_md, tasks_dir, index0, task_files, fixed_lines, rstdout>>
    /\ UNCHANGED <<cmpVars, genVars>>

\* Line 7 with tasks.md missing: open raises FileNotFoundError, which nothing
\* catches, and the run ends there.
ReadIndexFails(p) ==
    /\ pc[p] = "read"
    /\ tasks_md = NoFile
    /\ pc' = [pc EXCEPT ![p] = "crashed"]
    /\ UNCHANGED <<tasks_md, tasks_dir, index0, content, task_files, fixed_lines, rstdout>>
    /\ UNCHANGED <<cmpVars, genVars>>

\* Lines 11-16.
ScanTasks(p) ==
    /\ pc[p] = "scan"
    /\ task_files' = [task_files EXCEPT ![p] = BuildTaskFiles(tasks_dir)]
    /\ pc' = [pc EXCEPT ![p] = "fix"]
    /\ UNCHANGED <<tasks_md, tasks_dir, index0, content, fixed_lines, rstdout>>
    /\ UNCHANGED <<cmpVars, genVars>>

\* Lines 19-32.
FixAll(p) ==
    /\ pc[p] = "fix"
    /\ fixed_lines' = [fixed_lines EXCEPT ![p] = FixLines(content[p], task_files[p])]
    /\ pc' = [pc EXCEPT ![p] = "open"]
    /\ UNCHANGED <<tasks_md, tasks_dir, index0, content, task_files, rstdout>>
    /\ UNCHANGED <<cmpVars, genVars>>

\* A file opened without truncation keeps its bytes.
KeptBytes(bytes) == bytes

\* Line 35: open('tasks.md', 'w') truncates the file to length zero.
Truncated(bytes) == <<>>

OpenWrite(p) ==
    /\ pc[p] = "open"
    /\ tasks_md' = Truncated(tasks_md)
    /\ pc' = [pc EXCEPT ![p] = "write"]
    /\ UNCHANGED <<tasks_dir, index0, content, task_files, fixed_lines, rstdout>>
    /\ UNCHANGED <<cmpVars, genVars>>

\* Line 36 and the close of the file: the text goes to the file from this
\* run's own offset 0, over whatever the file holds by then.
WriteAt0(bytes, data) == data \o SubSeq(bytes, Len(data) + 1, Len(bytes))

WriteIndex(p) ==
    /\ pc[p] = "write"
    /\ tasks_md' = WriteAt0(tasks_md, WriteText(Join(fixed_lines[p])))
    /\ pc' = [pc EXCEPT ![p] = "print"]
    /\ UNCHANGED <<tasks_dir, index0, content, task_files, fixed_lines, rstdout>>
    /\ UNCHANGED <<cmpVars, genVars>>

\* Line 38.
PrintFixed(p) ==
    /\ pc[p] = "print"
    /\ rstdout' = [rstdout EXCEPT ![p] = Append(@, "Fixed all file paths in tasks.md")]
    /\ pc' = [pc EXCEPT ![p] = "done"]
    /\ UNCHANGED <<tasks_md, tasks_dir, index0, content, task_files, fixed_lines>>
    /\ UNCHANGED <<cmpVars, genVars>>

RepNext ==
    \/ \E p \in Runs : ReadIndex(p)
    \/ \E p \in Runs : ReadIndexFails(p)
    \/ \E p \in Runs : ScanTasks(p)
    \/ \E p \in Runs : FixAll(p)
    \/ \E p \in Runs : OpenWrite(p)
    \/ \E p \in Runs : WriteIndex(p)
    \/ \E p \in Runs : PrintFixed(p)

(***************************************************************************)
(*                     THE TOOL-MANIFEST COMPARATOR                        *)
(*                       src/count_real_tools.py                           *)
(*                                                                         *)
(* Text is a sequence of one-character strings.  Positions are Python's:   *)
(* the first character is at 0, and -1 is "not found".                     *)
(***************************************************************************)

\* str.find(sub, start): the lowest index >= start where sub occurs, or -1.
\* A negative start counts from the end.
PyFind(s, sub, start) ==
    LET n == Len(s)
        from == IF start < 0 THEN Max(start + n, 0) ELSE start
        hits == {i \in from..(n - Len(sub)) : SubSeq(s, i + 1, i + Len(sub)) = sub}
    IN  IF hits = {} THEN -1 ELSE CHOOSE i \in hits : \A j \in hits : i <= j

\* s[a:b]: a negative bound counts from the end; bounds are clipped.
PyIndex(n, a) == IF a < 0 THEN Max(a + n, 0) ELSE Min(a, n)

PySlice(s, a, b) == SubSeq(s, PyIndex(Len(s), a) + 1, PyIndex(Len(s), b))

\* The grave accent, which a string of this language cannot hold.
Tick == "<grave>"

\* The literals of lines 9, 10 and 27.
JsonMarker == <<Tick, Tick, Tick, "j", "s", "o", "n", "\n", "{">>
CloseFence == <<"\n", Tick, Tick, Tick>>
OurOpening == <<"{", "\n", " ", " ", "\"">>

\* Line 11: the characters of the marker that come before its "{".
MarkerSkip == 8

\* Line 17 and line 45: how many keys are listed.
FirstTools == 10

(***************************************************************************)
(* json.loads, for the texts of this model: objects, strings without       *)
(* escapes, unsigned integers, null, true and false.  A result is          *)
(* [ok, end, kind, keys, len]: end is the position after the value, keys   *)
(* the keys of an object (each once, in the order they first occur) and    *)
(* len the length of a string.                                             *)
(***************************************************************************)
JsonWs == {" ", "\n", "\t", "\r"}
JsonDigits == {"0", "1", "2", "3", "4", "5", "6", "7", "8", "9"}

JsonFail == [ok |-> FALSE, end |-> 0, kind |-> "error", keys |-> <<>>, len |-> 0]

JsonOk(e, k, ks, n) == [ok |-> TRUE, end |-> e, kind |-> k, keys |-> ks, len |-> n]

RECURSIVE SkipWs(_, _)
SkipWs(s, i) == IF i <= Len(s) /\ s[i] \in JsonWs THEN SkipWs(s, i + 1) ELSE i

\* A string that opens at s[i]: it runs to the next double quote, and may
\* hold no control character.
ScanString(s, i) ==
    IF \E j \in (i + 1)..Len(s) : s[j] = "\""
    THEN LET j == CHOOSE k \in (i + 1)..Len(s) :
                     s[k] = "\"" /\ \A m \in (i + 1)..(k - 1) : s[m] /= "\""
         IN  IF \E m \in (i + 1)..(j - 1) : s[m] \in {"\n", "\t", "\r"}
             THEN JsonFail
             ELSE JsonOk(j + 1, "string", <<SubSeq(s, i + 1, j - 1)>>, j - 1 - i)
    ELSE JsonFail

RECURSIVE DigitsEnd(_, _)
DigitsEnd(s, i) == IF i <= Len(s) /\ s[i] \in JsonDigits THEN DigitsEnd(s, i + 1) ELSE i

\* An integer that starts at s[i]: 0, or a digit from 1 to 9 and more digits.
ScanNumber(s, i) ==
    IF s[i] = "0" THEN JsonOk(i + 1, "number", <<>>, 0)
    ELSE JsonOk(DigitsEnd(s, i), "number", <<>>, 0)

IsAt(s, i, word) == i + Len(word) - 1 <= Len(s) /\ SubSeq(s, i, i + Len(word) - 1) = word

AddKey(keys, k) == IF \E i \in 1..Len(keys) : keys[i] = k THEN keys ELSE Append(keys, k)

RECURSIVE ScanValue(_, _)
RECURSIVE ScanMembers(_, _, _)

\* The members of an object from the key that opens at s[i].
ScanMembers(s, i, keys) ==
    LET key == ScanString(s, i)
    IN  IF ~key.ok THEN JsonFail
        ELSE LET c == SkipWs(s, key.end)
             IN  IF c > Len(s) \/ s[c] /= ":" THEN JsonFail
                 ELSE LET v == ScanValue(s, SkipWs(s, c + 1))
                      IN  IF ~v.ok THEN JsonFail
                          ELSE LET e == SkipWs(s, v.end)
                                   ks == AddKey(keys, key.keys[1])
                               IN  IF e > Len(s) THEN JsonFail
                                   ELSE IF s[e] = "}" THEN JsonOk(e + 1, "object", ks, 0)
                                   ELSE IF s[e] = ","
                                        THEN LET q == SkipWs(s, e + 1)
                                             IN  IF q <= Len(s) /\ s[q] = "\""
                                                 THEN ScanMembers(s, q, ks)
                                                 ELSE JsonFail
                                   ELSE JsonFail

ScanObject(s, i) ==
    LET q == SkipWs(s, i + 1)
    IN  IF q > Len(s) THEN JsonFail
        ELSE IF s[q] = "}" THEN JsonOk(q + 1, "object", <<>>, 0)
        ELSE IF s[q] = "\"" THEN ScanMembers(s, q, <<>>)
        ELSE JsonFail

ScanValue(s, i) ==
    IF i > Len(s) THEN JsonFail
    ELSE IF s[i] = "\"" THEN ScanString(s, i)
    ELSE IF s[i] = "{" THEN ScanObject(s, i)
    ELSE IF s[i] \in JsonDigits THEN ScanNumber(s, i)
    ELSE IF IsAt(s, i, <<"n", "u", "l", "l">>) THEN JsonOk(i + 4, "null", <<>>, 0)
    ELSE IF IsAt(s, i, <<"t", "r", "u", "e">>) THEN JsonOk(i + 4, "bool", <<>>, 0)
    ELSE IF IsAt(s, i, <<"f", "a", "l", "s", "e">>) THEN JsonOk(i + 5, "bool", <<>>, 0)
    ELSE JsonFail

\* json.loads(s): one value, with white space around it and nothing else.
JsonLoads(s) ==
    LET v == ScanValue(s, SkipWs(s, 1))
    IN  IF ~v.ok THEN JsonFail
        ELSE IF SkipWs(s, v.end) /= Len(s) + 1 THEN JsonFail
        ELSE v

\* What was never assigned.
Unbound == <<"<unbound>">>

\* Lines 14-19 and 43-48: what the statements under a try print for the
\* text json_str, a line being <<what, count, keys>>.  len() raises on a
\* number, null, true or false; .keys() raises on a string, after the count
\* was printed; an unbound name raises at its use.
\* The report with every key listed, without the [:10] of line 17.
ReportEveryKey(json_str, tools_label, failed_label) ==
    LET tools == IF json_str = Unbound THEN JsonFail ELSE JsonLoads(json_str)
        failed == <<failed_label, 0, <<>>>>
    IN  IF ~tools.ok \/ tools.kind \in {"number", "null", "bool"} THEN <<failed>>
        ELSE IF tools.kind = "string" THEN <<<<tools_label, tools.len, <<>>>>, failed>>
        ELSE << <<tools_label, Len(tools.keys), <<>>>>,
                <<"First 10 tools:", 0, tools.keys>> >>

Report(json_str, tools_label, failed_label) ==
    LET tools == IF json_str = Unbound THEN JsonFail ELSE JsonLoads(json_str)
        failed == <<failed_label, 0, <<>>>>
    IN  IF ~tools.ok \/ tools.kind \in {"number", "null", "bool"} THEN <<failed>>
        ELSE IF tools.kind = "string" THEN <<<<tools_label, tools.len, <<>>>>, failed>>
        ELSE << <<tools_label, Len(tools.keys), <<>>>>,
                <<"First 10 tools:", 0, PySlice(tools.keys, 0, FirstTools)>> >>

\* Lines 32-41: the loop over our_content[json_start:], here text[start:].  The text up to the
\* first "}" that brings the count of braces back to zero, or Unbound when
\* the loop ends without one.
RECURSIVE BraceScan(_, _, _, _)
BraceScan(text, start, i, brace_count) ==
    IF start + i >= Len(text) THEN Unbound
    ELSE LET char == text[start + i + 1]
         IN  IF char = "{"
             THEN BraceScan(text, start, i + 1, brace_count + 1)
             ELSE IF char = "}"
                  THEN IF brace_count - 1 = 0
                       THEN PySlice(text, start, start + i + 1)
                       ELSE BraceScan(text, start, i + 1, brace_count - 1)
                  ELSE BraceScan(text, start, i + 1, brace_count)

(***************************************************************************)
(* The inputs of the comparator: the two documents.  Both describe one     *)
(* tool catalogue, an object of count keys whose values are all of one style;  *)
(* the shape says how the document presents (or spoils) it.                *)
(***************************************************************************)
KeyNames == <<"a", "b", "c", "d", "f", "g", "h", "i", "k", "m", "p", "q", "v">>

MaxKeys == 11

KeyList(count, reversed) ==
    [i \in 1..count |-> IF reversed THEN KeyNames[count + 1 - i] ELSE KeyNames[i]]

Styles == {"number", "string", "object", "close-brace", "open-brace"}

ValueText(style) ==
    CASE style = "number" -> <<"1">>
      [] style = "string" -> <<"\"", "x", "\"">>
      [] style = "object" -> <<"{", "\"", "z", "\"", ":", "1", "}">>
      [] style = "close-brace" -> <<"\"", "}", "\"">>
      [] style = "open-brace" -> <<"\"", "{", "\"">>

\* The text of an object, indented by two spaces (pretty) or on one line.
RECURSIVE MembersText(_, _, _)
MembersText(keys, style, pretty) ==
    IF keys = <<>> THEN <<>>
    ELSE <<"\"", Head(keys), "\"", ":">> \o (IF pretty THEN <<" ">> ELSE <<>>)
         \o ValueText(style)
         \o (IF Len(keys) = 1 THEN <<>>
             ELSE <<",">> \o (IF pretty THEN <<"\n", " ", " ">> ELSE <<>>)
                  \o MembersText(Tail(keys), style, pretty))

ObjectText(keys, style, pretty) ==
    IF keys = <<>> THEN <<"{", "}">>
    ELSE IF pretty
         THEN <<"{", "\n", " ", " ">> \o MembersText(keys, style, TRUE) \o <<"\n", "}">>
         ELSE <<"{">> \o MembersText(keys, style, FALSE) \o <<"}">>

\* An object text with its last brace missing, or with a comma before it.
CutShort(text) == SubSeq(text, 1, Len(text) - 1)

TrailingComma(text) == CutShort(text) \o <<",", "}">>

OpenFence == <<Tick, Tick, Tick, "j", "s", "o", "n", "\n">>

NumberBlock == OpenFence \o <<"1">> \o CloseFence \o <<"\n">>

OtherBlock == OpenFence \o <<"{", "\"", "z", "\"", ":", "1", "}">> \o CloseFence \o <<"\n">>

PlainBlock == <<Tick, Tick, Tick, "\n", "x">> \o CloseFence \o <<"\n">>

CursorShapes ==
    { "fenced", "after-text", "after-plain-block", "after-number-block", "after-object-block",
      "cut-short", "trailing-comma", "no-closing-fence", "no-marker", "missing" }

\* The shapes in which the first block opened by the marker of line 9 holds
\* the catalogue, well-formed.
CursorWellFormed == {"fenced", "after-text", "after-plain-block", "after-number-block"}

CursorDoc(keys, style, shape) ==
    LET obj == ObjectText(keys, style, FALSE)
        block == OpenFence \o obj \o CloseFence \o <<"\n">>
    IN  CASE shape = "fenced" -> block
          [] shape = "after-text" -> <<"x", "\n">> \o block \o <<"x">>
          [] shape = "after-plain-block" -> PlainBlock \o block
          [] shape = "after-number-block" -> NumberBlock \o block
          [] shape = "after-object-block" -> OtherBlock \o block
          [] shape = "cut-short" -> OpenFence \o CutShort(obj) \o CloseFence
          [] shape = "trailing-comma" -> OpenFence \o TrailingComma(obj) \o CloseFence
          [] shape = "no-closing-fence" -> OpenFence \o obj \o <<"\n">>
          [] shape = "no-marker" -> <<"x", "\n">> \o obj \o <<"\n">>
          [] shape = "missing" -> NoFile

OurShapes == {"pretty", "after-text", "before-brace", "cut-short", "one-line", "missing"}

\* The shapes in which the document holds the catalogue, well-formed, at the
\* first occurrence of the opening pattern of line 27.
OurWellFormed == {"pretty", "after-text", "before-brace"}

OurDoc(keys, style, shape) ==
    LET obj == ObjectText(keys, style, TRUE)
    IN  CASE shape = "pretty" -> obj
          [] shape = "after-text" -> <<"x", "\n">> \o obj \o <<"\n">>
          [] shape = "before-brace" -> obj \o <<"\n", "}">>
          [] shape = "cut-short" -> <<"x", "\n">> \o CutShort(obj)
          [] shape = "one-line" -> ObjectText(keys, style, FALSE)
          [] shape = "missing" -> NoFile

CmpStart(state) ==
    /\ cpc = state
    /\ cursor_content = <<>>
    /\ json_start = 0
    /\ json_end = 0
    /\ cursor_json_str = Unbound
    /\ our_content = <<>>
    /\ our_json_str = Unbound
    /\ cstdout = <<>>

CmpInit ==
    /\ catalogue \in [count : 0..MaxKeys, reversed : BOOLEAN, style : Styles,
                      cursor : CursorShapes, ours : OurShapes]
    /\ cursor_file = CursorDoc(KeyList(catalogue.count, catalogue.reversed),
                               catalogue.style, catalogue.cursor)
    /\ our_file = OurDoc(KeyList(catalogue.count, catalogue.reversed),
                         catalogue.style, catalogue.ours)
    /\ CmpStart("read_cursor")

\* Lines 5-6.
ReadCursor ==
    /\ cpc = "read_cursor"
    /\ cursor_file /= NoFile
    /\ cursor_content' = cursor_file
    /\ cpc' = "extract_cursor"
    /\ UNCHANGED <<catalogue, cursor_file, our_file, json_start, json_end, cursor_json_str,
                   our_content, our_json_str, cstdout>>
    /\ UNCHANGED <<repVars, genVars>>

\* Line 5 with the document missing: open raises outside any try, and the
\* script ends there.
ReadCursorFails ==
    /\ cpc = "read_cursor"
    /\ cursor_file = NoFile
    /\ cpc' = "crashed"
    /\ UNCHANGED <<catalogue, cursor_file, our_file, cursor_content, json_start, json_end,
                   cursor_json_str, our_content, our_json_str, cstdout>>
    /\ UNCHANGED <<repVars, genVars>>

\* Lines 9-11.
ExtractCursor ==
    /\ cpc = "extract_cursor"
    /\ json_start' = PyFind(cursor_content, JsonMarker, 0)
    /\ json_end' = PyFind(cursor_content, CloseFence, json_start')
    /\ cursor_json_str' = PySlice(cursor_content, json_start' + MarkerSkip, json_end')
    /\ cpc' = "parse_cursor"
    /\ UNCHANGED <<catalogue, cursor_file, our_file, cursor_content, our_content,
                   our_json_str, cstdout>>
    /\ UNCHANGED <<repVars, genVars>>

\* Lines 14-19.
ParseCursor ==
    /\ cpc = "parse_cursor"
    /\ cstdout' = cstdout \o Report(cursor_json_str, "CURSOR TOOLS", "Failed to parse Cursor JSON")
    /\ cpc' = "read_ours"
    /\ UNCHANGED <<catalogue, cursor_file, our_file, cursor_content, json_start, json_end,
                   cursor_json_str, our_content, our_json_str>>
    /\ UNCHANGED <<repVars, genVars>>

\* Lines 23-24.
ReadOurs ==
    /\ cpc = "read_ours"
    /\ our_file /= NoFile
    /\ our_content' = our_file
    /\ cpc' = "find_ours"
    /\ UNCHANGED <<catalogue, cursor_file, our_file, cursor_content, json_start, json_end,
                   cursor_json_str, our_json_str, cstdout>>
    /\ UNCHANGED <<repVars, genVars>>

\* Line 23 with actual_output.txt missing: the except of line 47 catches it.
ReadOursFails ==
    /\ cpc = "read_ours"
    /\ our_file = NoFile
    /\ cstdout' = Append(cstdout, <<"Failed to parse our JSON", 0, <<>>>>)
    /\ cpc' = "done"
    /\ UNCHANGED <<catalogue, cursor_file, our_file, cursor_content, json_start, json_end,
                   cursor_json_str, our_content, our_json_str>>
    /\ UNCHANGED <<repVars, genVars>>

\* Lines 27-28, the opening pattern found.
FindOurs ==
    /\ cpc = "find_ours"
    /\ json_start' = PyFind(our_content, OurOpening, 0)
    /\ json_start' /= -1
    /\ cpc' = "scan_ours"
    /\ UNCHANGED <<catalogue, cursor_file, our_file, cursor_content, json_end,
                   cursor_json_str, our_content, our_json_str, cstdout>>
    /\ UNCHANGED <<repVars, genVars>>

\* Lines 27-29, the opening pattern not found.
FindOursFails ==
    /\ cpc = "find_ours"
    /\ json_start' = PyFind(our_content, OurOpening, 0)
    /\ json_start' = -1
    /\ cstdout' = Append(cstdout, <<"Could not find JSON start in our output", 0, <<>>>>)
    /\ cpc' = "done"
    /\ UNCHANGED <<catalogue, cursor_file, our_file, cursor_content, json_end,
                   cursor_json_str, our_content, our_json_str>>
    /\ UNCHANGED <<repVars, genVars>>

\* Lines 32-41.
ScanOurs ==
    /\ cpc = "scan_ours"
    /\ our_json_str' = BraceScan(our_content, json_start, 0, 0)
    /\ cpc' = "parse_ours"
    /\ UNCHANGED <<catalogue, cursor_file, our_file, cursor_content, json_start, json_end,
                   cursor_json_str, our_content, cstdout>>
    /\ UNCHANGED <<repVars, genVars>>

\* Lines 43-48.
ParseOurs ==
    /\ cpc = "parse_ours"
    /\ cstdout' = cstdout \o Report(our_json_str, "OUR TOOLS", "Failed to parse our JSON")
    /\ cpc' = "done"
    /\ UNCHANGED <<catalogue, cursor_file, our_file, cursor_content, json_start, json_end,
                   cursor_json_str, our_content, our_json_str>>
    /\ UNCHANGED <<repVars, genVars>>

CmpNext ==
    \/ ReadCursor
    \/ ReadCursorFails
    \/ ExtractCursor
    \/ ParseCursor
    \/ ReadOurs
    \/ ReadOursFails
    \/ FindOurs
    \/ FindOursFails
    \/ ScanOurs
    \/ ParseOurs

(***************************************************************************)
(*                        THE RULE-FILE GENERATOR                          *)
(*                        src/create_rule_files.py                         *)
(*                                                                         *)
(* A file is a sequence of lines, a line a tuple of the pieces it is put   *)
(* together from.  The directory .cursor/rules is a function from the names  *)
(* in it to their contents, or NoRulesDir when it does not exist.          *)
(***************************************************************************)

\* Lines 6-13: the f-string.
\* The header without the line that closes it.
FrontmatterUnclosed(name, description) ==
    << <<"---">>,
       <<"name: ", name>>,
       <<"description: ", description>>,
       <<"globs:">>,
       <<"  - \"**/*\"">>,
       <<"alwaysApply: false">> >>

Frontmatter(name, description) ==
    << <<"---">>,
       <<"name: ", name>>,
       <<"description: ", description>>,
       <<"globs:">>,
       <<"  - \"**/*\"">>,
       <<"alwaysApply: false">>,
       <<"---">> >>

\* The rest of a body, after its heading and the empty line under it.
BodyText == <<"(the text of the rule)">>

\* Lines 24-198: the arguments of the six calls.
Rules ==
    << [file |-> "minsky-workflow-orchestrator.mdc",
        name |-> "Minsky Workflow Orchestrator",
        description |-> "Overview of the Minsky workflow system and entry point to focused workflow rules",
        content |-> << <<"# Minsky Workflow System">>, <<"">>, BodyText >>],
       [file |-> "minsky-cli-usage.mdc",
        name |-> "Minsky CLI Usage Protocol",
        description |-> "REQUIRED protocol for using the Minsky CLI for all task and session operations",
        content |-> << <<"# Minsky CLI Usage Protocol">>, <<"">>, BodyText >>],
       [file |-> "minsky-session-management.mdc",
        name |-> "Minsky Session Management Protocol",
        description |-> "REQUIRED protocol for starting, re-entering, and managing Minsky sessions",
        content |-> << <<"# Minsky Session Management Protocol">>, <<"">>, BodyText >>],
       [file |-> "task-implementation-workflow.mdc",
        name |-> "Task Implementation Workflow",
        description |-> "REQUIRED workflow for implementing tasks from start to completion",
        content |-> << <<"# Task Implementation Workflow">>, <<"">>, BodyText >>],
       [file |-> "task-status-protocol.mdc",
        name |-> "Task Status Protocol",
        description |-> "REQUIRED protocol for checking, updating, and verifying task status",
        content |-> << <<"# Task Status Protocol">>, <<"">>, BodyText >>],
       [file |-> "pr-preparation-workflow.mdc",
        name |-> "PR Preparation Workflow",
        description |-> "REQUIRED workflow for preparing and submitting pull requests",
        content |-> << <<"# PR Preparation Workflow">>, <<"">>, BodyText >>] >>

\* A file opened for update (mode 'r+' or 'a+' rewound) keeps what it held.
OpenForUpdate(old) == old

\* Line 14: open(file_path, 'w') empties the file, or creates it empty.
OpenForWriting(old) == <<>>

\* Line 15: f.write(frontmatter + content), from the start of the file.
WriteRule(old, name, description, body) ==
    WriteAt0(OpenForWriting(old), Frontmatter(name, description) \o body)

\* The directory with the file of one rule written.
WithFile(dir, file, text) ==
    [f \in DOMAIN dir \cup {file} |-> IF f = file THEN text ELSE dir[f]]

CreateRuleFileIn(dir, rule) ==
    WithFile(dir, rule.file,
             WriteRule(IF rule.file \in DOMAIN dir THEN dir[rule.file] ELSE <<>>,
                       rule.name, rule.description, rule.content))

NoRulesDir == [f \in {"ENOENT"} |-> <<>>]

\* Line 20: whether the directory is to be created.
MustCreate(dir) == dir = NoRulesDir

EmptyDir == [f \in {} |-> <<>>]

\* The directory before the run: missing, or holding some of the six files
\* and a file of another rule, each with some number of old lines.
MaxOldLines == 11

OldText(n) == [i \in 1..n |-> <<"old line">>]

RuleFiles == {Rules[i].file : i \in 1..Len(Rules)}

OldDirs ==
    {NoRulesDir} \cup
    UNION { {[f \in names |-> OldText(n)] : n \in {0, 1, MaxOldLines}}
            : names \in SUBSET (RuleFiles \cup {"creating-tasks.mdc"}) }

GenInit ==
    /\ rules_dir \in OldDirs
    /\ dir0 = rules_dir
    /\ gpc = "ensure_dir"
    /\ next_rule = 1
    /\ created = {}
    /\ gstdout = <<>>

\* Lines 19-21.  os.makedirs raises FileExistsError for a directory that is
\* there already, which nothing would catch.
EnsureDir ==
    /\ gpc = "ensure_dir"
    /\ IF MustCreate(rules_dir)
       THEN IF rules_dir /= NoRulesDir
            THEN gpc' = "crashed in makedirs" /\ UNCHANGED rules_dir
            ELSE gpc' = "create" /\ rules_dir' = EmptyDir
       ELSE gpc' = "create" /\ UNCHANGED rules_dir
    /\ UNCHANGED <<dir0, next_rule, created, gstdout>>
    /\ UNCHANGED <<repVars, cmpVars>>

\* One call of create_rule_file, lines 4-16.
CreateRuleFile ==
    /\ gpc = "create"
    /\ next_rule <= Len(Rules)
    /\ rules_dir' = CreateRuleFileIn(rules_dir, Rules[next_rule])
    /\ created' = created \cup {Rules[next_rule].file}
    /\ gstdout' = Append(gstdout, <<"Created ", Rules[next_rule].file>>)
    /\ next_rule' = next_rule + 1
    /\ UNCHANGED <<dir0, gpc>>
    /\ UNCHANGED <<repVars, cmpVars>>

\* Line 14 raising (permission denied, disk full): nothing catches it, and
\* the run ends with the files written so far.
CreateRuleFileFails ==
    /\ gpc = "create"
    /\ next_rule <= Len(Rules)
    /\ gpc' = "crashed in open"
    /\ UNCHANGED <<rules_dir, dir0, next_rule, created, gstdout>>
    /\ UNCHANGED <<repVars, cmpVars>>

\* Line 200.
PrintSummary ==
    /\ gpc = "create"
    /\ next_rule > Len(Rules)
    /\ gstdout' = Append(gstdout, <<"All rule files created successfully with proper frontmatter.">>)
    /\ gpc' = "done"
    /\ UNCHANGED <<rules_dir, dir0, next_rule, created>>
    /\ UNCHANGED <<repVars, cmpVars>>

GenNext ==
    \/ EnsureDir
    \/ CreateRuleFile
    \/ CreateRuleFileFails
    \/ PrintSummary

(***************************************************************************)
(* The specifications: one run of each script, and concurrent runs of the  *)
(* repairer.  The scripts share nothing; a specification holds the         *)
(* variables of the other scripts at rest.                                 *)
(***************************************************************************)
RepIdle == RepInit({NoFile}, {NoDir}, {})

CmpIdle ==
    /\ catalogue = [count |-> 0, reversed |-> FALSE, style |-> "number",
                    cursor |-> "missing", ours |-> "missing"]
    /\ cursor_file = NoFile
    /\ our_file = NoFile
    /\ CmpStart("idle")

GenIdle ==
    /\ rules_dir = NoRulesDir
    /\ dir0 = NoRulesDir
    /\ gpc = "idle"
    /\ next_rule = 1
    /\ created = {}
    /\ gstdout = <<>>

\* One run of the repairer.
RepairInit == RepInit(IndexTexts \cup {NoFile}, Dirs, {1}) /\ CmpIdle /\ GenIdle

RepairNext == RepNext

SpecRepair == RepairInit /\ [][RepairNext]_vars

\* Several runs of the repairer at once, on the same files.
RaceInit == RepInit(RaceTexts, RaceDirs, 1..NumRuns) /\ CmpIdle /\ GenIdle

RaceNext == RepNext

SpecRace == RaceInit /\ [][RaceNext]_vars

\* One run of the comparator.
CompareInit == CmpInit /\ RepIdle /\ GenIdle

CompareNext == CmpNext

SpecCompare == CompareInit /\ [][CompareNext]_vars

\* One run of the generator.
GenerateInit == GenInit /\ RepIdle /\ CmpIdle

GenerateNext == GenNext

SpecGenerate == GenerateInit /\ [][GenerateNext]_vars

(***************************************************************************)
(* Properties of the repairer.                                             *)
(***************************************************************************)

\* The references of a line: where the matches of the pattern start, found
\* left to right without overlap.
RECURSIVE RefStartsFrom(_, _)
RefStartsFrom(line, i) ==
    IF i > Len(line) THEN <<>>
    ELSE IF MatchEnd(line, i) /= 0
         THEN <<i>> \o RefStartsFrom(line, MatchEnd(line, i) + 1)
         ELSE RefStartsFrom(line, i + 1)

RefStarts(line) == RefStartsFrom(line, 1)

\* The path between the parentheses of the reference that starts at line[s].
RefPath(line, s) ==
    SubSeq(line, s + DigitRun(line, s + 1) + 2, MatchEnd(line, s) - 1)

\* The files tasks/N-<rest>.md of task number num.
FilesOf(num) == {f \in GlobTasks(tasks_dir) : TaskNumOf(f) = num}

PathOf(f) == <<"process/", "tasks/">> \o f

RunDone == pc[1] = "done"

\* The lines of the index as the run read them, and of the index it wrote.
LinesBefore == Split(ReadText(index0))

LinesAfter == Split(tasks_md)

C2_EveryReferenceRepaired ==
    RunDone =>
        \A i \in 1..Len(LinesAfter) :
            LET line == LinesAfter[i]
                refs == RefStarts(line)
            IN  \A r \in 1..Len(refs) :
                    FilesOf(GroupNum(line, refs[r])) /= {} =>
                        \E f \in FilesOf(GroupNum(line, refs[r])) :
                            RefPath(line, refs[r]) = PathOf(f)

\* C3: once the run is done, tasks.md has as many lines as before, in the
\* same order, and each line with no reference, or with references only to
\* task numbers that have no file, is the same bytes as before.
C3_OtherLinesUntouched ==
    RunDone =>
        LET before == Split(index0)
        IN  /\ Len(LinesAfter) = Len(before)
            /\ \A i \in 1..Len(before) :
                  (\A r \in 1..Len(RefStarts(before[i])) :
                      FilesOf(GroupNum(before[i], RefStarts(before[i])[r])) = {})
                  => LinesAfter[i] = before[i]

\* The same for an index that holds no carriage return.
FrameWithoutCR ==
    (\A k \in 1..Len(index0) : index0[k] /= CR) => C3_OtherLinesUntouched

\* C8: a run that starts with tasks.md missing, or with the tasks directory
\* missing, never reaches the write of tasks.md and prints nothing.
C8_ReadFailureIsFatal ==
    (index0 = NoFile \/ tasks_dir = NoDir) =>
        /\ pc[1] \notin {"write", "print", "done"}
        /\ rstdout[1] = <<>>

\* What the code does there: only a missing tasks.md stops the run.
MissingIndexIsFatal ==
    /\ index0 = NoFile => pc[1] \in {"read", "crashed"} /\ tasks_md = NoFile /\ rstdout[1] = <<>>
    /\ pc[1] = "crashed" => index0 = NoFile

\* The text one run alone writes.
Repaired == WriteText(Join(FixLines(ReadText(index0), BuildTaskFiles(tasks_dir))))

AllDone == \A p \in Runs : pc[p] = "done"

\* C10 as claimed: once all runs are done, tasks.md holds the repaired text
\* of the original index.
C10_AlwaysCompleteText == AllDone => tasks_md = Repaired

\* C10, for runs that each read a complete index (the original one, or one
\* another run had finished writing): once all runs are done, tasks.md holds
\* the repaired text of the original index.
C10_CompleteWhenReadsComplete ==
    (AllDone /\ \A p \in Runs : content[p] \in {ReadText(index0), Repaired})
        => tasks_md = Repaired

\* All runs done, one of which read the original index and another the index
\* the first had written, and the repair changed the text.
C10_Witness ==
    /\ AllDone
    /\ Repaired /= ReadText(index0)
    /\ \E p, q \in Runs : content[p] = ReadText(index0) /\ content[q] = Repaired
    /\ tasks_md = Repaired

(***************************************************************************)
(* Properties of the comparator.                                           *)
(***************************************************************************)
CatalogueKeys == KeyList(catalogue.count, catalogue.reversed)

\* The keys as json.loads returns them: each a text of one character.
AsTexts(keys) == [i \in 1..Len(keys) |-> <<keys[i]>>]

CursorLines == {"CURSOR TOOLS", "Failed to parse Cursor JSON"}

OurLines == {"OUR TOOLS", "Failed to parse our JSON", "Could not find JSON start in our output"}

Printed(labels) == \E i \in 1..Len(cstdout) : cstdout[i][1] \in labels

\* C4: the run never ends abnormally, and a run that has ended has printed
\* a result or a failure for the first source and for the second.
C4_FaultIsolation ==
    /\ cpc /= "crashed"
    /\ cpc = "done" => Printed(CursorLines) /\ Printed(OurLines)

\* What the code does there: that holds when the first document can be read.
IsolationWhenCursorReadable == cursor_file /= NoFile => C4_FaultIsolation

\* C5: when the first block that the marker of line 9 opens in the first
\* document holds a well-formed object and is closed by a fence, the run
\* prints the number of keys of that object and its first min(10, number)
\* keys in the order of the document.
C5_CountAndFirstTen ==
    cpc \in {"read_ours", "find_ours", "scan_ours", "parse_ours", "done"} =>
        /\ catalogue.cursor \in CursorWellFormed =>
              /\ Len(cstdout) >= 2
              /\ cstdout[1] = <<"CURSOR TOOLS", Len(CatalogueKeys), <<>>>>
              /\ cstdout[2] = <<"First 10 tools:", 0,
                                AsTexts(SubSeq(CatalogueKeys, 1, Min(10, Len(CatalogueKeys))))>>
        /\ catalogue.cursor = "after-object-block" =>
              /\ Len(cstdout) >= 2
              /\ cstdout[1] = <<"CURSOR TOOLS", 1, <<>>>>
              /\ cstdout[2] = <<"First 10 tools:", 0, <<<<"z">>>>>>

\* The first source reported for a catalogue of more than ten keys, listed
\* last to first, after another fenced block.
C5_Witness ==
    /\ cpc = "read_ours"
    /\ catalogue.cursor = "after-number-block"
    /\ catalogue.count > 10
    /\ catalogue.reversed
    /\ Len(cstdout) = 2
    /\ Len(cstdout[2][3]) = 10

\* C9: for a second document that holds a well-formed object at the first
\* occurrence of the opening pattern, the text handed to the parser is that
\* object, from its opening brace to the brace that closes it; and when no
\* brace brings the depth back to zero no text is parsed, a failure is
\* printed and the run goes on to its end.
C9_MatchingBraceFound ==
    /\ (cpc = "parse_ours" /\ catalogue.ours \in OurWellFormed) =>
            our_json_str = ObjectText(CatalogueKeys, catalogue.style, TRUE)
    /\ (cpc = "done" /\ our_content /= <<>> /\ json_start /= -1 /\ our_json_str = Unbound) =>
            cstdout[Len(cstdout)] = <<"Failed to parse our JSON", 0, <<>>>>

\* What the code does there: that holds when no string holds a brace.
MatchingBraceWithoutBracesInStrings ==
    catalogue.style \notin {"close-brace", "open-brace"} => C9_MatchingBraceFound

(***************************************************************************)
(* Properties of the generator.                                            *)
(***************************************************************************)
SixFiles ==
    { "minsky-workflow-orchestrator.mdc", "minsky-cli-usage.mdc",
      "minsky-session-management.mdc", "task-implementation-workflow.mdc",
      "task-status-protocol.mdc", "pr-preparation-workflow.mdc" }

FilesBefore == IF dir0 = NoRulesDir THEN {} ELSE DOMAIN dir0

\* C6: a run that completes has written the six files and no other, and each
\* of the six starts with the header (a line ---, the fields name,
\* description, globs with its one entry, alwaysApply, a line ---) with a
\* body that is not empty right after it.
C6_SixFilesWithHeader ==
    gpc = "done" =>
        /\ created = SixFiles
        /\ Cardinality(created) = 6
        /\ DOMAIN rules_dir = FilesBefore \cup SixFiles
        /\ \A f \in SixFiles :
              LET text == rules_dir[f]
              IN  /\ Len(text) > 7
                  /\ text[1] = <<"---">>
                  /\ Len(text[2]) = 2 /\ text[2][1] = "name: " /\ text[2][2] /= ""
                  /\ Len(text[3]) = 2 /\ text[3][1] = "description: " /\ text[3][2] /= ""
                  /\ text[4] = <<"globs:">>
                  /\ text[5] = <<"  - \"**/*\"">>
                  /\ text[6] = <<"alwaysApply: false">>
                  /\ text[7] = <<"---">>
                  /\ text[8] \notin {<<"">>, <<"---">>, <<"old line">>}

\* A completed run in a directory that held another rule's file and not all
\* of the six.
C6_Witness ==
    /\ gpc = "done"
    /\ "creating-tasks.mdc" \in FilesBefore
    /\ ~(SixFiles \subseteq FilesBefore)
    /\ Len(gstdout) = 7

\* The directory a first run leaves when it starts with none.
RECURSIVE RunFrom(_, _)
RunFrom(dir, i) == IF i > Len(Rules) THEN dir ELSE RunFrom(CreateRuleFileIn(dir, Rules[i]), i + 1)

FirstRun == RunFrom(EmptyDir, 1)

\* C7: a run over a directory that exists does not fail creating it, and
\* once it completes each of the six files holds the bytes a first run on
\* an empty directory writes, whatever the file held before.
C7_RerunSameBytes ==
    /\ gpc /= "crashed in makedirs"
    /\ gpc = "done" => \A f \in SixFiles : rules_dir[f] = FirstRun[f]

\* A completed run over a directory whose six files were each longer than
\* what the run writes.
C7_Witness ==
    /\ gpc = "done"
    /\ dir0 /= NoRulesDir
    /\ SixFiles \subseteq DOMAIN dir0
    /\ \A f \in SixFiles : Len(dir0[f]) > Len(rules_dir[f])

====
